---- MODULE Spec2Model ----
(***************************************************************************)
(* Model of src/utils.rs: the IncrementalMA moving-average tracker and the *)
(* numeric helpers pack_half_2x16, is_float_zero and are_floats_equal.     *)
(*                                                                         *)
(* Floating point is modelled by what the hardware does on the values the  *)
(* model uses, not by exact arithmetic:                                    *)
(*   - an f64 is a record [h, l] standing for the integer h * 2^53 + l     *)
(*     with |l| far below 2^52; every f64 addition and subtraction rounds  *)
(*     its exact result to the 53-bit significand, ties to even;           *)
(*   - an f32 of the comparison helpers is an integer, rounded to the      *)
(*     24-bit significand after every operation;                           *)
(*   - an f32 handed to pack_half_2x16 is its IEEE-754 bit fields.         *)
(***************************************************************************)
EXTENDS Integers, Sequences, FiniteSets, TLC

\* Largest window_size passed to IncrementalMA::new.
MaxCap == 3
\* Largest number of add calls made on one tracker.
MaxObs == 5

Min(a, b) == IF a <= b THEN a ELSE b
Max(a, b) == IF a >= b THEN a ELSE b
Abs(a) == IF a < 0 THEN -a ELSE a

RECURSIVE Pow2Floor(_)
\* Largest power of two that is <= n, for n >= 1.
Pow2Floor(n) == IF n <= 1 THEN 1 ELSE 2 * Pow2Floor(n \div 2)

\* l rounded to the nearest multiple of ulp, ties to the even multiple.
RoundTiesEven(l, ulp) ==
    LET q == l \div ulp
        r == l % ulp
    IN  IF 2 * r < ulp THEN q * ulp
        ELSE IF 2 * r > ulp THEN (q + 1) * ulp
        ELSE IF q % 2 = 0 THEN q * ulp
        ELSE (q + 1) * ulp

(***************************************************************************)
(* f64 values h * 2^53 + l.                                                *)
(***************************************************************************)
F64(h, l) == [h |-> h, l |-> l]

\* 0_f64
Zero == F64(0, 0)

F64Neg(x) == F64(-(x.h), -(x.l))

\* The exact value h * 2^53 + l, h >= 1, rounded to an f64.  In the binade
\* [P * 2^53, 2P * 2^53) the spacing of f64 values is 2P; just below a power
\* of two P * 2^53 it is P.
RoundPos(h, l) ==
    LET P == Pow2Floor(h)
        ulp == IF l < 0 /\ h = P THEN P ELSE 2 * P
    IN  F64(h, RoundTiesEven(l, ulp))

\* The exact value h * 2^53 + l rounded to an f64 (round to nearest, ties to
\* even).  Below 2^53 every integer is an f64.
RoundF64(h, l) ==
    IF h = 0 THEN F64(0, l)
    ELSE IF h > 0 THEN RoundPos(h, l)
    ELSE F64Neg(RoundPos(-h, -l))

\* f64 + f64
F64Add(x, y) == RoundF64(x.h + y.h, x.l + y.l)

\* f64 - f64
F64Sub(x, y) == RoundF64(x.h - y.h, x.l - y.l)

\* f64 / (len as f64), kept as the quotient's numerator and denominator.  The
\* division is correctly rounded, so equal quotients are equal f64 values.
F64Div(x, n) == [num |-> x, den |-> n]

\* The samples handed to add: small integers and 2^53.
Samples == {F64(0, 1), F64(0, 10), F64(0, 20), F64(0, 30), F64(0, 40), F64(1, 0)}

(***************************************************************************)
(* std::collections::VecDeque<f64>, as IncrementalMA uses it.              *)
(***************************************************************************)
\* The pre-1.67 ring buffer: a power of two, minus the one slot kept free.
WithCapacityPow2(n) == 2 * Pow2Floor(Max(n, 1)) - 1

\* VecDeque::with_capacity(n).capacity(): the buffer is allocated for exactly
\* n elements of a non-zero size.
WithCapacity(n) == n

\* capacity() after push_back onto a deque of length len and capacity c: a
\* full buffer grows (amortized doubling, at least 4 slots of 8 bytes).
PushBackCapacity(len, c) == IF len = c THEN Max(Max(2 * c, c + 1), 4) ELSE c

(***************************************************************************)
(* struct IncrementalMA { v, sum }: self is [v, cap, sum], cap being       *)
(* v.capacity().                                                           *)
(***************************************************************************)
new(window_size) ==
    [v |-> << >>, cap |-> WithCapacity(window_size), sum |-> Zero]

\* add with the eviction's subtraction left out.
addKeepsEvicted(self, value) ==
    LET full == Len(self.v) = self.cap
        v1 == IF full /\ self.v # << >> THEN Tail(self.v) ELSE self.v
        v2 == Append(v1, value)
        s2 == F64Add(self.sum, value)
    IN  [panic |-> full /\ self.v = << >>,
         self |-> [v |-> v2, cap |-> PushBackCapacity(Len(v1), self.cap), sum |-> s2],
         result |-> F64Div(s2, Len(v2))]

\* add evicting the newest element (pop_back) instead of the oldest.
addPopsBack(self, value) ==
    LET full == Len(self.v) = self.cap
        evict == full /\ self.v # << >>
        v1 == IF evict THEN SubSeq(self.v, 1, Len(self.v) - 1) ELSE self.v
        s1 == IF evict THEN F64Sub(self.sum, self.v[Len(self.v)]) ELSE self.sum
        v2 == Append(v1, value)
        s2 == F64Add(s1, value)
    IN  [panic |-> full /\ self.v = << >>,
         self |-> [v |-> v2, cap |-> PushBackCapacity(Len(v1), self.cap), sum |-> s2],
         result |-> F64Div(s2, Len(v2))]

\* add dividing by the capacity instead of the current length.
addDividesByCapacity(self, value) ==
    LET full == Len(self.v) = self.cap
        evict == full /\ self.v # << >>
        v1 == IF evict THEN Tail(self.v) ELSE self.v
        s1 == IF evict THEN F64Sub(self.sum, Head(self.v)) ELSE self.sum
        v2 == Append(v1, value)
        s2 == F64Add(s1, value)
    IN  [panic |-> full /\ self.v = << >>,
         self |-> [v |-> v2, cap |-> PushBackCapacity(Len(v1), self.cap), sum |-> s2],
         result |-> F64Div(s2, self.cap)]

\* add evicting only once the length has passed the capacity (> for ==).
addEvictsLate(self, value) ==
    LET evict == Len(self.v) > self.cap
        v1 == IF evict THEN Tail(self.v) ELSE self.v
        s1 == IF evict THEN F64Sub(self.sum, Head(self.v)) ELSE self.sum
        v2 == Append(v1, value)
        s2 == F64Add(s1, value)
    IN  [panic |-> FALSE,
         self |-> [v |-> v2, cap |-> PushBackCapacity(Len(v1), self.cap), sum |-> s2],
         result |-> F64Div(s2, Len(v2))]

\* IncrementalMA::add.  panic is pop_front().unwrap() on an empty deque: the
\* call then returns nothing and changes nothing.
add(self, value) ==
    LET full == Len(self.v) = self.cap
        evict == full /\ self.v # << >>
        v1 == IF evict THEN Tail(self.v) ELSE self.v
        s1 == IF evict THEN F64Sub(self.sum, Head(self.v)) ELSE self.sum
        v2 == Append(v1, value)
        s2 == F64Add(s1, value)
    IN  [panic |-> full /\ self.v = << >>,
         self |-> IF full /\ self.v = << >> THEN self
                  ELSE [v |-> v2, cap |-> PushBackCapacity(Len(v1), self.cap), sum |-> s2],
         result |-> F64Div(s2, Len(v2))]

\* calc without the is_empty test.
calcUnguarded(self) == F64Div(self.sum, Len(self.v))

\* IncrementalMA::calc
calc(self) ==
    IF self.v = << >> THEN F64Div(Zero, 1) ELSE F64Div(self.sum, Len(self.v))

RECURSIVE Pow2(_)
\* 2^k
Pow2(k) == IF k <= 0 THEN 1 ELSE 2 * Pow2(k - 1)

\* Bit k of the non-negative integer x.
Bit(x, k) == (x \div Pow2(k)) % 2

(***************************************************************************)
(* half::f16::from_f32 on the bit fields [sign, exp, man] of an f32: one   *)
(* sign bit, 8 exponent bits, 23 significand bits.  The result is the      *)
(* 16-bit pattern of the f16 (to_bits), round to nearest, ties to even.    *)
(***************************************************************************)
F32Bits(sign, exp, man) == [sign |-> sign, exp |-> exp, man |-> man]

\* man >> shift, rounded to nearest, ties to even: one is added when the bit
\* below the cut is set and the kept value is odd or a lower bit is set.
ShiftRoundEven(man, shift) ==
    LET kept == man \div Pow2(shift)
        roundBit == Bit(man, shift - 1)
        sticky == man % Pow2(shift - 1)
    IN  IF roundBit = 1 /\ (kept % 2 = 1 \/ sticky # 0) THEN kept + 1 ELSE kept

F16FromF32(x) ==
    LET halfSign == x.sign * Pow2(15)
        halfExp == x.exp - 127 + 15
    IN  IF x.exp = 255
        THEN \* infinity, or a NaN kept a NaN by setting the quiet bit
             halfSign + 31 * Pow2(10)
                + (IF x.man = 0 THEN 0
                   ELSE (x.man \div Pow2(13))
                          + (IF Bit(x.man, 22) = 1 THEN 0 ELSE Pow2(9)))
        ELSE IF halfExp >= 31
        THEN \* too large for an f16: infinity
             halfSign + 31 * Pow2(10)
        ELSE IF halfExp <= 0
        THEN IF 14 - halfExp > 24
             THEN \* too small for a subnormal f16: signed zero
                  halfSign
             ELSE \* subnormal f16: the hidden bit is made explicit
                  halfSign + ShiftRoundEven(x.man + Pow2(23), 14 - halfExp)
        ELSE \* normal f16; a carry out of the significand goes into the exponent
             halfSign + halfExp * Pow2(10) + ShiftRoundEven(x.man, 13)

(***************************************************************************)
(* u32 values as sequences of 32 bits, least significant bit first.        *)
(***************************************************************************)
\* u32::from(n) for a u16 n.
U32From(n) == [i \in 1..32 |-> IF i <= 16 THEN Bit(n, i - 1) ELSE 0]

\* a << k on u32: the bits shifted past bit 31 are dropped.
Shl(a, k) == [i \in 1..32 |-> IF i <= k THEN 0 ELSE a[i - k]]

\* a | b on u32
BitOr(a, b) == [i \in 1..32 |-> IF a[i] = 1 \/ b[i] = 1 THEN 1 ELSE 0]

\* pack_half_2x16 shifting the second half by 15.
packShiftedBy15(x, y) ==
    BitOr(U32From(F16FromF32(x)), Shl(U32From(F16FromF32(y)), 15))

\* pack_half_2x16
pack_half_2x16(x, y) ==
    LET x_half == F16FromF32(x)
        y_half == F16FromF32(y)
    IN  BitOr(U32From(x_half), Shl(U32From(y_half), 16))

\* The f32 values handed to pack_half_2x16.
PackInputs ==
    { F32Bits(0, 127, 0),          \*  1.0
      F32Bits(1, 127, 0),          \* -1.0
      F32Bits(0, 0, 0),            \*  0.0
      F32Bits(1, 0, 0),            \* -0.0
      F32Bits(0, 126, 0),          \*  0.5
      F32Bits(0, 142, 8380416),    \*  65504.0, the largest f16
      F32Bits(0, 142, 8384512),    \*  65520.0, rounds up to infinity
      F32Bits(0, 127, 4096),       \*  1 + 2^-11, a tie rounded down to even
      F32Bits(0, 127, 12288),      \*  1 + 3 * 2^-11, a tie rounded up to even
      F32Bits(1, 127, 8388607),    \*  just above -2.0, rounds to -2.0
      F32Bits(0, 103, 0),          \*  2^-24, the smallest subnormal f16
      F32Bits(0, 100, 0),          \*  2^-27, underflows to zero
      F32Bits(1, 255, 0),          \* -infinity
      F32Bits(0, 255, 1),          \*  a NaN
      F32Bits(1, 255, 8388607) }   \*  the NaN of all ones

(***************************************************************************)
(* f32 values of the comparison helpers: integers, rounded to the 24-bit   *)
(* significand (round to nearest, ties to even).  Up to 2^24 every integer *)
(* is an f32.                                                              *)
(***************************************************************************)
RoundF32(n) ==
    IF Abs(n) <= Pow2(24) THEN n
    ELSE LET ulp == Pow2Floor(Abs(n)) \div Pow2(23)
         IN  IF n > 0 THEN RoundTiesEven(n, ulp) ELSE -RoundTiesEven(-n, ulp)

\* f32 - f32
F32Sub(x, y) == RoundF32(x - y)

\* is_float_zero comparing with <=.
isFloatZeroInclusive(x, threshold) == Abs(x) <= threshold

\* is_float_zero
is_float_zero(x, threshold) == Abs(x) < threshold

\* are_floats_equal
are_floats_equal(x, y, threshold) == is_float_zero(F32Sub(x, y), threshold)

\* The f32 values compared.
CompareInputs ==
    {-3, 0, 1, 2, 5, Pow2(24), Pow2(24) + 2, Pow2(25), Pow2(25) + 4}

\* The thresholds used.
Thresholds == {-1, 0, 1, 2, 4}


(***************************************************************************)
(* One tracker through its life: st is "unborn" before new, "live" after   *)
(* it, "panicked" once add has panicked.  window_size is the argument      *)
(* given to new; v, cap, sum are the tracker's fields; ret is the value    *)
(* the last call returned; obs is the history of the samples whose add     *)
(* returned.                                                               *)
(***************************************************************************)
VARIABLES st, window_size, v, cap, sum, ret, obs

\* A call of pack_half_2x16: its arguments px, py and, once pk is "done", the
\* u32 it returned.
VARIABLES pk, px, py, packed

\* A call of are_floats_equal: its arguments ex, ey, et and, once ek is
\* "done", the bool it returned.
VARIABLES ek, ex, ey, et, eres

maVars == <<st, window_size, v, cap, sum, ret, obs>>

packVars == <<pk, px, py, packed>>

eqVars == <<ek, ex, ey, et, eres>>

vars == <<maVars, packVars, eqVars>>

Self == [v |-> v, cap |-> cap, sum |-> sum]

NoRet == [op |-> "none", val |-> F64Div(Zero, 1)]

MAIdle ==
    /\ st = "unborn"
    /\ window_size = 0
    /\ v = << >>
    /\ cap = 0
    /\ sum = Zero
    /\ ret = NoRet
    /\ obs = << >>

PackIdle ==
    /\ pk = "idle"
    /\ px = F32Bits(0, 0, 0)
    /\ py = F32Bits(0, 0, 0)
    /\ packed = U32From(0)

EqIdle ==
    /\ ek = "idle"
    /\ ex = 0
    /\ ey = 0
    /\ et = 0
    /\ eres = FALSE

InitMA == MAIdle /\ PackIdle /\ EqIdle

New(ws) ==
    /\ st = "unborn"
    /\ st' = "live"
    /\ window_size' = ws
    /\ v' = new(ws).v
    /\ cap' = new(ws).cap
    /\ sum' = new(ws).sum
    /\ UNCHANGED <<ret, obs, packVars, eqVars>>

Add(value) ==
    /\ st = "live"
    /\ Len(obs) < MaxObs
    /\ LET r == add(Self, value)
       IN  IF r.panic
           THEN /\ st' = "panicked"
                /\ UNCHANGED <<window_size, v, cap, sum, ret, obs>>
           ELSE /\ v' = r.self.v
                /\ cap' = r.self.cap
                /\ sum' = r.self.sum
                /\ ret' = [op |-> "add", val |-> r.result]
                /\ obs' = Append(obs, value)
                /\ UNCHANGED <<st, window_size>>
    /\ UNCHANGED <<packVars, eqVars>>

Calc ==
    /\ st = "live"
    /\ ret' = [op |-> "calc", val |-> calc(Self)]
    /\ UNCHANGED <<st, window_size, v, cap, sum, obs, packVars, eqVars>>

NextMA ==
    \/ \E ws \in 0..MaxCap : New(ws)
    \/ \E value \in Samples : Add(value)
    \/ Calc

Spec == InitMA /\ [][NextMA]_vars

(***************************************************************************)
(* pack_half_2x16 applied to every pair of PackInputs.                     *)
(***************************************************************************)
InitPack ==
    /\ MAIdle /\ EqIdle
    /\ pk = "idle"
    /\ px \in PackInputs
    /\ py \in PackInputs
    /\ packed = U32From(0)

Pack ==
    /\ pk = "idle"
    /\ pk' = "done"
    /\ packed' = pack_half_2x16(px, py)
    /\ UNCHANGED <<px, py, maVars, eqVars>>

NextPack == Pack

SpecPack == InitPack /\ [][NextPack]_vars

(***************************************************************************)
(* are_floats_equal applied to every x, y of CompareInputs and every       *)
(* threshold of Thresholds.                                                *)
(***************************************************************************)
InitEq ==
    /\ MAIdle /\ PackIdle
    /\ ek = "idle"
    /\ ex \in CompareInputs
    /\ ey \in CompareInputs
    /\ et \in Thresholds
    /\ eres = FALSE

AreFloatsEqual ==
    /\ ek = "idle"
    /\ ek' = "done"
    /\ eres' = are_floats_equal(ex, ey, et)
    /\ UNCHANGED <<ex, ey, et, maVars, packVars>>

NextEq == AreFloatsEqual

SpecEq == InitEq /\ [][NextEq]_vars

(***************************************************************************)
(* What the tracker is compared with.                                      *)
(***************************************************************************)
\* The last k elements of a sequence.
LastK(s, k) == SubSeq(s, Len(s) - k + 1, Len(s))

\* The samples a window of the requested size should hold after obs.
Expected == LastK(obs, Min(Len(obs), window_size))

RECURSIVE ExactSum(_)
\* The sum of a sequence of samples as a real number: nothing is rounded.
ExactSum(s) ==
    IF s = << >> THEN Zero
    ELSE LET t == ExactSum(Tail(s)) IN F64(Head(s).h + t.h, Head(s).l + t.l)

RECURSIVE F64Sum(_, _)
\* The sum of a sequence of samples added up from acc, left to right, in f64.
F64Sum(acc, s) == IF s = << >> THEN acc ELSE F64Sum(F64Add(acc, Head(s)), Tail(s))

\* The mean of a non-empty sequence of samples as a real number.
ExactMean(s) == [num |-> ExactSum(s), den |-> Len(s)]

\* Two quotients are the same real number.
RatEq(a, b) ==
    /\ a.num.h * b.den = b.num.h * a.den
    /\ a.num.l * b.den = b.num.l * a.den

\* Two quotients that the f64 division may deliver as the same f64: they are
\* the same real number, or both are of magnitude 2^50 and above, where the
\* division's own rounding can merge neighbours.  Quotients below that which
\* differ as real numbers differ as f64 values.
MayBeSameF64(a, b) == RatEq(a, b) \/ (a.num.h # 0 /\ b.num.h # 0)

\* Every sample is an integer below 2^53 (so are the sums of a window of
\* them, and no addition or subtraction of the tracker rounds).
AllSmall(s) == \A i \in 1..Len(s) : s[i].h = 0

Whole(n) == [num |-> F64(0, n), den |-> 1]

\* C1 as claimed: for every capacity >= 1 and every sequence of samples, the
\* mean calc returns after the observations equals the arithmetic mean of the
\* last min(n, c) samples (equality read as permissively as f64 allows).
C1_MeanOfLastSamplesAlways ==
    (st = "live" /\ window_size >= 1 /\ obs # << >> /\ ret.op = "calc")
        => MayBeSameF64(ret.val, ExactMean(Expected))

\* C1 amended: when every sample is an integer below 2^53, the mean calc
\* returns after the observations is the arithmetic mean of the last
\* min(n, c) samples.
C1_MeanOfLastSamples ==
    (st = "live" /\ window_size >= 1 /\ obs # << >> /\ ret.op = "calc" /\ AllSmall(obs))
        => RatEq(ret.val, ExactMean(Expected))

C1_Witness ==
    /\ st = "live" /\ window_size = 2 /\ ret.op = "calc"
    /\ obs = <<F64(0, 10), F64(0, 20), F64(0, 40)>>
    /\ RatEq(ret.val, Whole(30))

\* C2: once the tracker exists, the window never holds more samples than the
\* window_size given to new, and neither that bound nor the deque's capacity
\* changes afterwards.
C2_WindowBounded ==
    [][st' # "unborn" =>
          /\ Len(v') <= window_size'
          /\ (st # "unborn" => (window_size' = window_size /\ cap' = cap))]_vars

C2_Witness ==
    /\ st = "live" /\ window_size >= 1
    /\ Len(obs) > window_size /\ Len(v) = window_size

\* C3 as claimed: new(0) is rejected, so no tracker of capacity 0 exists.
C3_ZeroCapacityRejected == st # "unborn" => window_size >= 1

\* C4 as claimed: add never fails; its pop_front().unwrap() only runs on a
\* non-empty window.
C4_AddNeverPanics == st # "panicked"

\* C5: the window holds exactly the last min(n, c) observed samples in arrival
\* order: every eviction removed the longest-resident sample.
C5_FifoWindow == st # "unborn" => v = Expected

C5_Witness ==
    /\ st = "live" /\ window_size = 3 /\ Len(obs) = 4
    /\ obs[1] = F64(1, 0) /\ obs[2] = F64(0, 1)
    /\ v = Tail(obs)

\* C6 as claimed: in every reachable state running_sum is the sum of the
\* elements in the window (as a real number, or as f64 addition of the window
\* from zero gives it).
C6_SumOfWindowAlways ==
    st # "unborn" => (sum = ExactSum(v) \/ sum = F64Sum(Zero, v))

\* C6 amended: when every sample observed so far is an integer below 2^53,
\* running_sum is the sum of the elements in the window; an empty tracker has
\* running_sum 0.
C6_SumOfWindow ==
    /\ (st # "unborn" /\ AllSmall(obs)) => sum = ExactSum(v)
    /\ (st # "unborn" /\ v = << >>) => sum = Zero

C6_Witness ==
    /\ st = "live" /\ window_size = 2 /\ Len(obs) = 4 /\ AllSmall(obs)
    /\ sum = F64(0, 50) /\ v = <<F64(0, 10), F64(0, 40)>>

\* C7: every add that returns delivers running_sum / window.length of the
\* updated tracker, the updated length being min(previous length + 1,
\* capacity); that is what calc reports right afterwards; with capacity 3 the
\* samples 10, 20, 30, 40 return 10, 15, 20, 30.
C7_AddReturnsMean ==
    [][obs' # obs =>
          /\ ret'.op = "add"
          /\ Len(v') = Min(Len(v) + 1, window_size)
          /\ ret'.val = F64Div(sum', Len(v'))
          /\ ret'.val = calc([v |-> v', cap |-> cap', sum |-> sum'])
          /\ (window_size = 3 /\ obs' = <<F64(0, 10)>>) => RatEq(ret'.val, Whole(10))
          /\ (window_size = 3 /\ obs' = <<F64(0, 10), F64(0, 20)>>)
                => RatEq(ret'.val, Whole(15))
          /\ (window_size = 3 /\ obs' = <<F64(0, 10), F64(0, 20), F64(0, 30)>>)
                => RatEq(ret'.val, Whole(20))
          /\ (window_size = 3 /\ obs' = <<F64(0, 10), F64(0, 20), F64(0, 30), F64(0, 40)>>)
                => RatEq(ret'.val, Whole(30))]_vars

C7_Witness ==
    /\ st = "live" /\ window_size = 3 /\ ret.op = "add"
    /\ obs = <<F64(0, 10), F64(0, 20), F64(0, 30), F64(0, 40)>>
    /\ RatEq(ret.val, Whole(30))

\* C8: calc leaves the window and running_sum as they are, and on an empty
\* window it returns exactly 0.
C8_CalcEmptyIsZero ==
    [][ret'.op = "calc" =>
          /\ v' = v /\ sum' = sum /\ cap' = cap
          /\ (v = << >> => ret'.val = F64Div(Zero, 1))]_vars

C8_Witness ==
    /\ st = "live" /\ v = << >> /\ obs = << >>
    /\ ret.op = "calc" /\ ret.val = F64Div(Zero, 1)

\* The value of bits from..to of a u32, bit `from` counting 1.
Field(a, from, to) ==
    LET RECURSIVE val(_)
        val(i) == IF i > to THEN 0 ELSE a[i] + 2 * val(i + 1)
    IN  val(from)

RECURSIVE HexBits(_)
\* The bits, least significant first, of a sequence of hex digits written
\* most significant first.
HexBits(d) ==
    IF d = << >> THEN << >>
    ELSE HexBits(Tail(d)) \o [i \in 1..4 |-> Bit(Head(d), i - 1)]

\* C9: the u32 pack_half_2x16 returns holds the f16 pattern of x in bits
\* 0..15 and that of y in bits 16..31, each recovered exactly by extracting
\* its half; 1.0 and -1.0 (0x3C00, 0xBC00) pack to 0xBC003C00.
C9_PackHalves ==
    pk = "done" =>
        /\ Field(packed, 1, 16) = F16FromF32(px)
        /\ Field(packed, 17, 32) = F16FromF32(py)
        /\ (px = F32Bits(0, 127, 0) /\ py = F32Bits(1, 127, 0))
              => /\ F16FromF32(px) = 15360
                 /\ F16FromF32(py) = 48128
                 /\ packed = HexBits(<<11, 12, 0, 0, 3, 12, 0, 0>>)

C9_Witness ==
    /\ pk = "done"
    /\ px = F32Bits(0, 127, 0) /\ py = F32Bits(1, 127, 0)
    /\ packed = HexBits(<<11, 12, 0, 0, 3, 12, 0, 0>>)

\* The f32 arithmetic of a caller that forms a + 2t.
F32Add(x, y) == RoundF32(x + y)

F32Mul(x, y) == RoundF32(x * y)

\* C10 as claimed: are_floats_equal(x, y, t) is true exactly when the
\* difference it computes is below t in magnitude; for every a and t > 0 it
\* is true of (a, a) and false of (a, a + 2t); with t <= 0 it is never true.
C10_NearlyEqualAlways ==
    ek = "done" =>
        /\ eres <=> (Abs(F32Sub(ex, ey)) < et)
        /\ (et > 0 /\ ey = ex) => eres
        /\ (et > 0 /\ ey = F32Add(ex, F32Mul(2, et))) => ~eres
        /\ et <= 0 => ~eres

\* C10 amended: are_floats_equal(x, y, t) is true exactly when the f32
\* difference x - y is below t in magnitude (strictly); for finite a and
\* t > 0 it is true of (a, a), and false of (a, b) whenever b - a is exactly
\* 2t; with t <= 0 it is never true.
C10_NearlyEqual ==
    ek = "done" =>
        /\ eres <=> (Abs(F32Sub(ex, ey)) < et)
        /\ (et > 0 /\ ey = ex) => eres
        /\ (et > 0 /\ ey - ex = 2 * et) => ~eres
        /\ et <= 0 => ~eres

C10_Witness ==
    /\ ek = "done" /\ et = 1
    /\ ex = Pow2(24) /\ ey = Pow2(24) + 2
    /\ ~eres

====
